---- MODULE Spec2Model ----
(***************************************************************************)
(* A model of the das2go utils package: the URL fetch scheduler            *)
(* (Fetch, URLFetchWorker, UrlFetchQueue), the fetch executor (fetch,      *)
(* FetchResponse, validateUrl) and the TLS certificate manager             *)
(* (TLSCertsManager.GetCerts, CertExpire); and of the services package:    *)
(* the aggregator (processUrls), the handlers of the filelumis API         *)
(* (file_run_lumi, OrderByRunLumis, L_dbs3_block_run_lumi4dataset), the    *)
(* planning of their URL lists (dbs_urls, dataset4site_release) and the    *)
(* DBS normalizer (DBSUnmarshal).                                          *)
(*                                                                         *)
(* Goroutines are processes; every blocking point or shared-memory access  *)
(* of the code is a separate step.  An unbuffered channel send is a        *)
(* rendezvous: the sender waits in a "send" position and the receiver's    *)
(* step completes the exchange.                                            *)
(***************************************************************************)
EXTENDS Integers, Sequences, FiniteSets, TLC

VARIABLES
    UrlQueueLimit,   \* int32, configuration: 0 means no limit
    UrlRetry,        \* int, configuration
    UrlQueueSize,    \* int32, atomically incremented/decremented by FetchResponse
    TotalGetCalls,   \* uint64 counter
    TotalPostCalls,  \* uint64 counter
    now,             \* wall clock, in seconds (time.Now().Unix())
    workerPc,        \* position of the URLFetchWorker goroutine
    urlRequests,     \* the worker's heap (a slice of requests), 1-based here
    req,             \* the arguments of each Fetch call: rurl, args (out is the call's own channel)
    ts,              \* UrlRequest.ts of each submitted request
    sub,             \* the order in which the pending queued requests called Fetch
    caller,          \* position of each goroutine that calls Fetch
    task,            \* the execution of fetch(...) for each request
    got,             \* what the consumer has received on each result channel
    log,             \* per request, the outcome of every FetchResponse call so far
    wire,            \* per request, the URL handed to client.Do by every attempt
    slept,           \* per request, total seconds of backoff slept by fetch
    mock,            \* the outcomes the HTTP transport may produce
    Certs,           \* tlsManager.Certs
    Expire,          \* tlsManager.Expire
    TLSCertsRenewInterval,
    gc,              \* the execution of GetCerts by each caller
    loads,           \* number of tlsCerts() invocations
    fatal,           \* log.Fatal was called: the process has exited
    lastLoad,        \* the instant of the last tlsCerts() invocation
    names,           \* the block or dataset names a handler plans its URLs from
    system,          \* processUrls: the system argument
    urls,            \* processUrls: the planned URLs, request k fetches urls[k]
    aggPc,           \* processUrls: position of the join loop
    umap,            \* processUrls: the keys of umap, the outstanding URLs
    outRecords,      \* processUrls: the records collected so far
    handler,         \* the aggregation handler that runs
    keys,            \* the handler's keys
    filelumis,       \* file_run_lumi: the records processUrls returned
    mpc,             \* position of the handler (file_run_lumi, OrderByRunLumis)
    rows,            \* file_run_lumi: out, the rows built so far
    rmap,            \* OrderByRunLumis: rmap, run -> lumis
    result,          \* the records the handler returns
    dbsApi,          \* DBSUnmarshal: the api argument
    dbsRecords,      \* DBSUnmarshal: records, what loadDBSData decoded
    dbsPc,           \* DBSUnmarshal: position of the loop over records
    dbsOut           \* DBSUnmarshal: out

schedVars == <<UrlQueueLimit, UrlRetry, UrlQueueSize, TotalGetCalls, TotalPostCalls,
               workerPc, urlRequests, req, ts, sub, caller, task, got, log, wire, slept, mock>>
certVars == <<Certs, Expire, TLSCertsRenewInterval, gc, loads, fatal, lastLoad>>
aggVars == <<names, system, urls, aggPc, umap, outRecords>>
mergeVars == <<handler, keys, filelumis, mpc, rows, rmap, result>>
normVars == <<dbsApi, dbsRecords, dbsPc, dbsOut>>
vars == <<schedVars, certVars, aggVars, mergeVars, normVars, now>>

(***************************************************************************)
(* Bounds of the model.                                                    *)
(***************************************************************************)
MaxLimit == 2
MaxRetry == 1
MaxTime == 1
MaxUrlLen == 3
MaxCertTicks == 3
MaxLoads == 3

Reqs == {"r1", "r2", "r3"}
Callers == {"c1", "c2"}

(***************************************************************************)
(* URLs are sequences of lexemes.  "http://" is the scheme, "a" stands for *)
(* any letter or digit, " " for a character no URL may contain.            *)
(***************************************************************************)
Alphabet == {"http://", "a", "#", " "}

RECURSIVE SeqsUpTo(_, _)
SeqsUpTo(S, n) ==
    IF n = 0 THEN {<<>>}
    ELSE LET shorter == SeqsUpTo(S, n - 1)
         IN shorter \cup {Append(s, x) : s \in {t \in shorter : Len(t) = n - 1}, x \in S}

Urls == SeqsUpTo(Alphabet, MaxUrlLen)
GoodUrl == <<"http://", "a">>
Bodies == {"", "{}"}

(***************************************************************************)
(* strings.Replace(rurl, "#", "%23", -1): every occurrence is replaced.    *)
(***************************************************************************)
\* Faulty variant: strings.Replace with n = 1, only the first '#' is replaced.
RECURSIVE ReplaceFirstOnly(_)
ReplaceFirstOnly(u) ==
    IF u = <<>> THEN <<>>
    ELSE IF Head(u) = "#" THEN <<"%23">> \o Tail(u)
    ELSE <<Head(u)>> \o ReplaceFirstOnly(Tail(u))

RECURSIVE ReplaceHash(_)
ReplaceHash(u) ==
    IF u = <<>> THEN <<>>
    ELSE <<(IF Head(u) = "#" THEN "%23" ELSE Head(u))>> \o ReplaceHash(Tail(u))

Contains(u, x) == \E i \in 1..Len(u) : u[i] = x

(***************************************************************************)
(* PatternUrl: the accepted URL grammar, an unanchored match of a scheme   *)
(* followed by URL characters, the last of which is not punctuation.       *)
(***************************************************************************)
UrlChars == {"a", "#", "%23"}
PatternUrl(u) ==
    \E i \in 1..Len(u) :
        /\ u[i] = "http://"
        /\ i + 1 <= Len(u)
        /\ u[i + 1] \in UrlChars

\* Faulty variant: the pattern is not consulted.
validateUrlNonEmptyOnly(rurl) == Len(rurl) > 0

validateUrl(rurl) == Len(rurl) > 0 /\ PatternUrl(rurl)

(***************************************************************************)
(* ResponseType.  Error "nil" is Go's nil error.  attempt tags the         *)
(* FetchResponse call that built the value.                                *)
(***************************************************************************)
NoResponse == [Url |-> <<>>, Data |-> "", Error |-> "nil", Method |-> "", attempt |-> 0]
NoTask == [pc |-> "none", i |-> 0, resp |-> NoResponse]
NoReq == [rurl |-> <<>>, args |-> "", submitted |-> FALSE]

Outcomes == {"ok", "transport", "gzip", "read"}
DecodeOutcomes == {"gzip", "read"}

(***************************************************************************)
(* UrlFetchQueue with container/heap: Less compares ts; Push appends and   *)
(* sifts up; Pop swaps the root with the last element, sifts down and      *)
(* removes the last element.  Indices are 0-based as in the code.          *)
(***************************************************************************)
At(q, i) == q[i + 1]

\* Faulty variant: the comparison is reversed, the latest request is on top.
LessReversed(q, i, j) == ts[At(q, i)] > ts[At(q, j)]

Less(q, i, j) == ts[At(q, i)] < ts[At(q, j)]
Swap(q, i, j) == [q EXCEPT ![i + 1] = q[j + 1], ![j + 1] = q[i + 1]]

RECURSIVE up(_, _)
up(q, j) ==
    IF j = 0 THEN q
    ELSE LET i == (j - 1) \div 2
         IN IF ~Less(q, j, i) THEN q ELSE up(Swap(q, i, j), i)

RECURSIVE down(_, _, _)
down(q, i, n) ==
    LET j1 == 2 * i + 1
    IN IF j1 >= n THEN q
       ELSE LET j2 == j1 + 1
                j == IF j2 < n /\ Less(q, j2, j1) THEN j2 ELSE j1
            IN IF ~Less(q, j, i) THEN q ELSE down(Swap(q, i, j), j, n)

heapPush(q, x) == up(Append(q, x), Len(q))

heapPopped(q) ==
    LET n == Len(q) - 1
    IN down(Swap(q, 0, n), 0, n)
heapPopItem(q) == heapPopped(q)[Len(q)]
\* Faulty variant: the popped item stays in the slice.
heapPopRestKeepsItem(q) == heapPopped(q)
heapPopRest(q) == SubSeq(heapPopped(q), 1, Len(q) - 1)

(***************************************************************************)
(* Fetch: queued mode hands the request to the worker over the unbuffered  *)
(* UrlRequestChannel; direct mode runs fetch in the caller.                *)
(***************************************************************************)
\* The calls of Fetch in queued mode are numbered in the order they are made;
\* the number is dropped, with the UrlRequest, when the request is dispatched.
RECURSIVE MaxOf(_)
MaxOf(S) ==
    IF S = {} THEN 0
    ELSE LET x == CHOOSE y \in S : TRUE
             m == MaxOf(S \ {x})
         IN IF x > m THEN x ELSE m
NextSub == MaxOf({sub[q] : q \in Reqs}) + 1

\* Faulty variant: direct mode starts fetch in a goroutine and returns at once.
FetchCallAsync(r) ==
    /\ caller[r] = "idle"
    /\ req[r].submitted
    /\ IF UrlQueueLimit > 0
       THEN /\ ts' = [ts EXCEPT ![r] = now]
            /\ sub' = [sub EXCEPT ![r] = NextSub]
            /\ caller' = [caller EXCEPT ![r] = "send"]
            /\ task' = task
       ELSE /\ caller' = [caller EXCEPT ![r] = "returned"]
            /\ task' = [task EXCEPT ![r] = [NoTask EXCEPT !.pc = "call", !.i = 1]]
            /\ ts' = ts
            /\ sub' = sub
    /\ UNCHANGED <<UrlQueueLimit, UrlRetry, UrlQueueSize, TotalGetCalls, TotalPostCalls,
                   workerPc, urlRequests, req, got, log, wire, slept, mock, certVars,
                   aggVars, mergeVars, now, normVars>>

\* Faulty variant: the limit is tested with >=, a zero limit goes to the queue.
FetchCallQueuedAtZero(r) ==
    /\ caller[r] = "idle"
    /\ req[r].submitted
    /\ IF UrlQueueLimit >= 0
       THEN /\ ts' = [ts EXCEPT ![r] = now]
            /\ sub' = [sub EXCEPT ![r] = NextSub]
            /\ caller' = [caller EXCEPT ![r] = "send"]
            /\ task' = task
       ELSE /\ caller' = [caller EXCEPT ![r] = "inline"]
            /\ task' = [task EXCEPT ![r] = [NoTask EXCEPT !.pc = "call", !.i = 1]]
            /\ ts' = ts
            /\ sub' = sub
    /\ UNCHANGED <<UrlQueueLimit, UrlRetry, UrlQueueSize, TotalGetCalls, TotalPostCalls,
                   workerPc, urlRequests, req, got, log, wire, slept, mock, certVars,
                   aggVars, mergeVars, now, normVars>>

FetchCall(r) ==
    /\ caller[r] = "idle"
    /\ req[r].submitted
    /\ IF UrlQueueLimit > 0
       THEN /\ ts' = [ts EXCEPT ![r] = now]
            /\ sub' = [sub EXCEPT ![r] = NextSub]
            /\ caller' = [caller EXCEPT ![r] = "send"]
            /\ task' = task
       ELSE /\ caller' = [caller EXCEPT ![r] = "inline"]
            /\ task' = [task EXCEPT ![r] = [NoTask EXCEPT !.pc = "call", !.i = 1]]
            /\ ts' = ts
            /\ sub' = sub
    /\ UNCHANGED <<UrlQueueLimit, UrlRetry, UrlQueueSize, TotalGetCalls, TotalPostCalls,
                   workerPc, urlRequests, req, got, log, wire, slept, mock, certVars,
                   aggVars, mergeVars, now, normVars>>

(***************************************************************************)
(* Init(): go URLFetchWorker(UrlRequestChannel)                            *)
(***************************************************************************)
StartWorker ==
    /\ workerPc = "off"
    /\ workerPc' = "select"
    /\ UNCHANGED <<UrlQueueLimit, UrlRetry, UrlQueueSize, TotalGetCalls, TotalPostCalls,
                   urlRequests, req, ts, sub, caller, task, got, log, wire, slept, mock,
                   certVars, aggVars, mergeVars, now, normVars>>

(***************************************************************************)
(* URLFetchWorker: one iteration of the select.  A ready sender is         *)
(* received and pushed; the default branch is taken only when no sender    *)
(* is ready, sleeps 10ms and then tests the admission condition.           *)
(***************************************************************************)
WorkerReceive(r) ==
    /\ workerPc = "select"
    /\ caller[r] = "send"
    /\ urlRequests' = heapPush(urlRequests, r)
    /\ caller' = [caller EXCEPT ![r] = "returned"]
    /\ UNCHANGED <<UrlQueueLimit, UrlRetry, UrlQueueSize, TotalGetCalls, TotalPostCalls,
                   workerPc, req, ts, sub, task, got, log, wire, slept, mock, certVars,
                   aggVars, mergeVars, now, normVars>>

WorkerDefault ==
    /\ workerPc = "select"
    /\ \A r \in Reqs : caller[r] # "send"
    /\ workerPc' = "sleep"
    /\ UNCHANGED <<UrlQueueLimit, UrlRetry, UrlQueueSize, TotalGetCalls, TotalPostCalls,
                   urlRequests, req, ts, sub, caller, task, got, log, wire, slept, mock,
                   certVars, aggVars, mergeVars, now, normVars>>

\* Faulty variant: the admission test ignores the limit.
AdmissionOpenUnlimited == Len(urlRequests) > 0

\* Faulty variant: the admission test is off by one.
AdmissionOpenOffByOne == Len(urlRequests) > 0 /\ UrlQueueSize + 1 < UrlQueueLimit

AdmissionOpen == Len(urlRequests) > 0 /\ UrlQueueSize < UrlQueueLimit

\* The popped UrlRequest is dropped once fetch has been started with its
\* client, rurl, args and out: its ts is no longer part of the state.
WorkerDispatch ==
    /\ workerPc = "sleep"
    /\ AdmissionOpen
    /\ LET r == heapPopItem(urlRequests)
       IN /\ task' = [task EXCEPT ![r] = [NoTask EXCEPT !.pc = "call", !.i = 1]]
          /\ ts' = [ts EXCEPT ![r] = 0]
          /\ sub' = [sub EXCEPT ![r] = 0]
    /\ urlRequests' = heapPopRest(urlRequests)
    /\ workerPc' = "select"
    /\ UNCHANGED <<UrlQueueLimit, UrlRetry, UrlQueueSize, TotalGetCalls, TotalPostCalls,
                   req, caller, got, log, wire, slept, mock, certVars, aggVars, mergeVars, now,
                   normVars>>

WorkerIdle ==
    /\ workerPc = "sleep"
    /\ ~AdmissionOpen
    /\ workerPc' = "select"
    /\ UNCHANGED <<UrlQueueLimit, UrlRetry, UrlQueueSize, TotalGetCalls, TotalPostCalls,
                   urlRequests, req, ts, sub, caller, task, got, log, wire, slept, mock,
                   certVars, aggVars, mergeVars, now, normVars>>

Worker == (\E r \in Reqs : WorkerReceive(r)) \/ WorkerDefault \/ WorkerDispatch \/ WorkerIdle

\* Faulty variant: a POST is counted as a GET.
FREnterCountsGet(r) ==
    /\ task[r].pc = "call"
    /\ LET rurl == ReplaceHash(req[r].rurl)
           a == task[r].i
           response == [NoResponse EXCEPT !.Url = rurl, !.attempt = a]
       IN /\ UrlQueueSize' = UrlQueueSize + 1
          /\ slept' = [slept EXCEPT ![r] = @ + (a - 1)]
          /\ IF ~validateUrl(rurl)
             THEN /\ task' = [task EXCEPT ![r].pc = "ret",
                                          ![r].resp = [response EXCEPT !.Error = "Invalid URL"]]
                  /\ UNCHANGED <<TotalGetCalls, TotalPostCalls, wire>>
             ELSE /\ IF Len(req[r].args) > 0
                     THEN /\ TotalGetCalls' = TotalGetCalls + 1
                          /\ TotalPostCalls' = TotalPostCalls
                          /\ task' = [task EXCEPT ![r].pc = "do",
                                          ![r].resp = [response EXCEPT !.Method = "POST"]]
                     ELSE /\ TotalGetCalls' = TotalGetCalls + 1
                          /\ TotalPostCalls' = TotalPostCalls
                          /\ task' = [task EXCEPT ![r].pc = "do",
                                          ![r].resp = [response EXCEPT !.Method = "GET"]]
                  /\ wire' = [wire EXCEPT ![r] = Append(@, rurl)]
    /\ UNCHANGED <<UrlQueueLimit, UrlRetry, workerPc, urlRequests, req, ts, sub, caller, got,
                   log, mock, certVars, aggVars, mergeVars, now, normVars>>

(***************************************************************************)
(* FetchResponse, entry: the counter is incremented, '#' is replaced, the  *)
(* URL is validated; an invalid URL is on its way out with an error, a     *)
(* valid one counts the call as GET or POST and goes to client.Do.  For    *)
(* attempt i + 1 fetch has slept i seconds before the call.                *)
(***************************************************************************)
FREnter(r) ==
    /\ task[r].pc = "call"
    /\ LET rurl == ReplaceHash(req[r].rurl)
           a == task[r].i
           response == [NoResponse EXCEPT !.Url = rurl, !.attempt = a]
       IN /\ UrlQueueSize' = UrlQueueSize + 1
          /\ slept' = [slept EXCEPT ![r] = @ + (a - 1)]
          /\ IF ~validateUrl(rurl)
             THEN /\ task' = [task EXCEPT ![r].pc = "ret",
                                          ![r].resp = [response EXCEPT !.Error = "Invalid URL"]]
                  /\ UNCHANGED <<TotalGetCalls, TotalPostCalls, wire>>
             ELSE /\ IF Len(req[r].args) > 0
                     THEN /\ TotalPostCalls' = TotalPostCalls + 1
                          /\ TotalGetCalls' = TotalGetCalls
                          /\ task' = [task EXCEPT ![r].pc = "do",
                                          ![r].resp = [response EXCEPT !.Method = "POST"]]
                     ELSE /\ TotalGetCalls' = TotalGetCalls + 1
                          /\ TotalPostCalls' = TotalPostCalls
                          /\ task' = [task EXCEPT ![r].pc = "do",
                                          ![r].resp = [response EXCEPT !.Method = "GET"]]
                  /\ wire' = [wire EXCEPT ![r] = Append(@, rurl)]
    /\ UNCHANGED <<UrlQueueLimit, UrlRetry, workerPc, urlRequests, req, ts, sub, caller, got,
                   log, mock, certVars, aggVars, mergeVars, now, normVars>>

(***************************************************************************)
(* The response of one attempt: client.Do fails (transport), the gzip      *)
(* reader cannot be created, reading the body fails, or the body is read.  *)
(***************************************************************************)
Completed(resp, o) ==
    CASE o = "ok" -> [resp EXCEPT !.Data = "data"]
      [] o = "transport" -> [resp EXCEPT !.Error = "transport"]
      [] o = "gzip" -> [resp EXCEPT !.Data = "Unable to read gzipped content",
                                    !.Error = "gzip"]
      [] o = "read" -> [resp EXCEPT !.Data = "partial", !.Error = "read"]
      [] o = "invalid" -> resp

(***************************************************************************)
(* fetch: a response without error is sent; an error is retried while      *)
(* i <= UrlRetry; after the loop the last response is sent.                *)
(***************************************************************************)
\* Faulty variant: a decode error ends the fetch.
NeedsRetryUnlessDecode(resp) == resp.Error \notin {"nil", "gzip", "read"}

NeedsRetry(resp) == resp.Error # "nil"

\* Faulty variant: the retry loop stops one iteration early.
RetryAllowedOffByOne(i) == i < UrlRetry

RetryAllowed(i) == i <= UrlRetry

\* Faulty variant: the return for an invalid URL skips the decrement.
FRReturnLeaksOnInvalid(r) ==
    /\ task[r].pc \in {"do", "ret"}
    /\ \E o \in (IF task[r].pc = "do" THEN mock ELSE {"invalid"}) :
        LET resp == Completed(task[r].resp, o)
        IN /\ log' = [log EXCEPT ![r] = Append(@, o)]
           /\ IF NeedsRetry(resp) /\ RetryAllowed(task[r].i)
              THEN task' = [task EXCEPT ![r].pc = "call", ![r].i = @ + 1, ![r].resp = resp]
              ELSE task' = [task EXCEPT ![r].pc = "send", ![r].resp = resp]
    /\ UrlQueueSize' = IF task[r].pc = "ret" THEN UrlQueueSize ELSE UrlQueueSize - 1
    /\ UNCHANGED <<UrlQueueLimit, UrlRetry, TotalGetCalls, TotalPostCalls,
                   workerPc, urlRequests, req, ts, sub, caller, got, wire, slept, mock,
                   certVars, aggVars, mergeVars, now, normVars>>

(***************************************************************************)
(* FetchResponse, the rest: client.Do and the reading of the body end with *)
(* one of the transport's outcomes (an invalid URL has none), the deferred *)
(* decrement runs and FetchResponse returns into fetch.                    *)
(***************************************************************************)
FRReturn(r) ==
    /\ task[r].pc \in {"do", "ret"}
    /\ \E o \in (IF task[r].pc = "do" THEN mock ELSE {"invalid"}) :
        LET resp == Completed(task[r].resp, o)
        IN /\ log' = [log EXCEPT ![r] = Append(@, o)]
           /\ IF NeedsRetry(resp) /\ RetryAllowed(task[r].i)
              THEN task' = [task EXCEPT ![r].pc = "call", ![r].i = @ + 1, ![r].resp = resp]
              ELSE task' = [task EXCEPT ![r].pc = "send", ![r].resp = resp]
    /\ UrlQueueSize' = UrlQueueSize - 1
    /\ UNCHANGED <<UrlQueueLimit, UrlRetry, TotalGetCalls, TotalPostCalls,
                   workerPc, urlRequests, req, ts, sub, caller, got, wire, slept, mock,
                   certVars, aggVars, mergeVars, now, normVars>>

(***************************************************************************)
(* ch <- resp: completes when the consumer of the result channel receives. *)
(* In direct mode fetch then returns into Fetch, which returns.            *)
(***************************************************************************)
Consume(r) ==
    /\ task[r].pc = "send"
    /\ got' = [got EXCEPT ![r] = Append(@, task[r].resp)]
    /\ task' = [task EXCEPT ![r].pc = "done"]
    /\ caller' = [caller EXCEPT ![r] = IF @ = "inline" THEN "returned" ELSE @]
    /\ UNCHANGED <<UrlQueueLimit, UrlRetry, UrlQueueSize, TotalGetCalls, TotalPostCalls,
                   workerPc, urlRequests, req, ts, sub, log, wire, slept, mock, certVars,
                   aggVars, mergeVars, now, normVars>>

TaskStep(r) == FREnter(r) \/ FRReturn(r)

\* The clock is read by Fetch alone (ts: time.Now().Unix()); ticks after the
\* last Fetch call are not observable and are left out.
Tick ==
    /\ now < MaxTime
    /\ \E r \in Reqs : req[r].submitted /\ caller[r] = "idle"
    /\ now' = now + 1
    /\ UNCHANGED <<schedVars, certVars, aggVars, mergeVars, normVars>>

(***************************************************************************)
(* TLSCertsManager.  Times are seconds; the zero time.Time is 0.  A        *)
(* certificate is its NotAfter and whether x509.ParseCertificate accepts   *)
(* it; nil and the empty slice are <<>>.                                   *)
(***************************************************************************)
GracePeriod == 600
ClockStep == GracePeriod \div 2
CertTimes == {k * ClockStep : k \in 1..(MaxCertTicks + 1)}
Intervals == {ClockStep, GracePeriod}

NoCall == [pc |-> "idle", lock |-> FALSE, path |-> "", ret |-> <<>>, retAt |-> 0]

\* CertExpire: NotAfter of the first certificate that parses, else the zero time.
RECURSIVE CertExpire(_)
CertExpire(certs) ==
    IF certs = <<>> THEN 0
    ELSE IF Head(certs).parses THEN Head(certs).notAfter
    ELSE CertExpire(Tail(certs))

\* What tlsCerts() can return at this instant: an error, (nil, nil) when no
\* proxy or key is configured, or one certificate that is valid when loaded.
LoadResults ==
    {[certs |-> <<>>, err |-> "failed to parse X509 proxy"], [certs |-> <<>>, err |-> "nil"]}
    \cup {[certs |-> <<[notAfter |-> n, parses |-> TRUE]>>, err |-> "nil"] :
            n \in {m \in CertTimes : m > now}}

\* GetCerts is entered: a mutex local to this call is created and locked.
GCCall(c) ==
    /\ ~fatal
    /\ gc[c].pc = "idle"
    /\ gc' = [gc EXCEPT ![c].pc = "check", ![c].lock = TRUE]
    /\ UNCHANGED <<Certs, Expire, TLSCertsRenewInterval, loads, fatal, lastLoad, schedVars, aggVars,
                   mergeVars, now, normVars>>

\* Faulty variant: the bundle is reloaded as soon as the interval is reached.
GCCheckAtInterval(c) ==
    /\ ~fatal
    /\ gc[c].pc = "check"
    /\ IF Certs = <<>> \/ now - Expire >= TLSCertsRenewInterval
       THEN gc' = [gc EXCEPT ![c].pc = "expire"]
       ELSE gc' = [gc EXCEPT ![c].pc = "return", ![c].path = "cached"]
    /\ UNCHANGED <<Certs, Expire, TLSCertsRenewInterval, loads, fatal, lastLoad, schedVars, aggVars,
                   mergeVars, now, normVars>>

\* t.Certs == nil || time.Since(t.Expire) > TLSCertsRenewInterval
GCCheck(c) ==
    /\ ~fatal
    /\ gc[c].pc = "check"
    /\ IF Certs = <<>> \/ now - Expire > TLSCertsRenewInterval
       THEN gc' = [gc EXCEPT ![c].pc = "expire"]
       ELSE gc' = [gc EXCEPT ![c].pc = "return", ![c].path = "cached"]
    /\ UNCHANGED <<Certs, Expire, TLSCertsRenewInterval, loads, fatal, lastLoad, schedVars, aggVars,
                   mergeVars, now, normVars>>

\* t.Expire = time.Now(), then tlsCerts() is called
GCSetExpire(c) ==
    /\ ~fatal
    /\ gc[c].pc = "expire"
    /\ loads < MaxLoads
    /\ Expire' = now
    /\ loads' = loads + 1
    /\ lastLoad' = now
    /\ gc' = [gc EXCEPT ![c].pc = "load"]
    /\ UNCHANGED <<Certs, TLSCertsRenewInterval, fatal, schedVars, aggVars, mergeVars, now,
                   normVars>>

\* Faulty variant: without a cached bundle the error is swallowed.
GCLoadSwallowsError(c) ==
    /\ ~fatal
    /\ gc[c].pc = "load"
    /\ \E res \in LoadResults :
        IF res.err = "nil"
        THEN /\ Certs' = res.certs
             /\ gc' = [gc EXCEPT ![c].pc = "return", ![c].path = "loaded"]
             /\ UNCHANGED <<Expire, fatal>>
        ELSE /\ gc' = [gc EXCEPT ![c].pc = "return", ![c].path = "failed"]
             /\ UNCHANGED <<Certs, Expire, fatal>>
    /\ UNCHANGED <<TLSCertsRenewInterval, loads, lastLoad, schedVars, aggVars, mergeVars, now,
                   normVars>>

\* tlsCerts() returns; the result is stored, or the window is extended by the
\* grace period if the cached certificate outlives it, or the process exits.
GCLoad(c) ==
    /\ ~fatal
    /\ gc[c].pc = "load"
    /\ \E res \in LoadResults :
        IF res.err = "nil"
        THEN /\ Certs' = res.certs
             /\ gc' = [gc EXCEPT ![c].pc = "return", ![c].path = "loaded"]
             /\ UNCHANGED <<Expire, fatal>>
        ELSE IF Certs # <<>>
        THEN /\ LET tsExt == now + GracePeriod
                IN Expire' = IF CertExpire(Certs) > tsExt THEN tsExt ELSE Expire
             /\ gc' = [gc EXCEPT ![c].pc = "return", ![c].path = "failed"]
             /\ UNCHANGED <<Certs, fatal>>
        ELSE /\ fatal' = TRUE
             /\ gc' = [gc EXCEPT ![c].pc = "fatal", ![c].path = "failed"]
             /\ UNCHANGED <<Certs, Expire>>
    /\ UNCHANGED <<TLSCertsRenewInterval, loads, lastLoad, schedVars, aggVars, mergeVars, now,
                   normVars>>

\* return t.Certs, nil; the deferred Unlock runs
GCReturn(c) ==
    /\ ~fatal
    /\ gc[c].pc = "return"
    /\ gc' = [gc EXCEPT ![c].pc = "idle", ![c].lock = FALSE, ![c].ret = Certs,
                        ![c].retAt = now]
    /\ UNCHANGED <<Certs, Expire, TLSCertsRenewInterval, loads, fatal, lastLoad, schedVars, aggVars,
                   mergeVars, now, normVars>>

\* One step of the clock is minutes long; a call of GetCerts is over well
\* within it, so the clock advances between calls.
TickCerts ==
    /\ ~fatal
    /\ \A c \in Callers : gc[c].pc = "idle"
    /\ now < MaxCertTicks * ClockStep
    /\ now' = now + ClockStep
    /\ UNCHANGED <<schedVars, certVars, aggVars, mergeVars, normVars>>

(***************************************************************************)
(* processUrls: the fan-out loop records every planned URL in umap and     *)
(* starts one goroutine "go utils.Fetch(furl, "", out)" per entry of urls, *)
(* all sending on the one unbuffered channel out; the join loop is a       *)
(* select with a default branch.  Request ReqOf[k] is the fetch of urls[k].*)
(***************************************************************************)
MaxUrls == 2
ReqOf == <<"r1", "r2", "r3">>
OtherUrl == <<"http://", "a", "a">>
HashUrl == <<"http://", "#">>
AggUrls == {GoodUrl, OtherUrl, HashUrl}
Systems == {"dbs3", "phedex", "sitedb"}
PlannedUrls == {u \in SeqsUpTo(AggUrls, MaxUrls) : Len(u) >= 1}

\* json.Unmarshal accepts the body of a successful call; the Data of a failed
\* call (empty, or the text "Unable to read gzipped content", or a truncated
\* body) is no JSON document.
ValidJson(data) == data = "data"

\* loadDBSData panics when json.Unmarshal fails; DBSUnmarshal returns the
\* decoded records (one per payload here).
DBSUnmarshal(data) ==
    IF ValidJson(data) THEN [panic |-> FALSE, records |-> <<[payload |-> data]>>]
    ELSE [panic |-> TRUE, records |-> <<>>]

\* The replica service's normalizer: a payload that cannot be decoded is fatal
\* for the aggregation call.
PhedexUnmarshal(data) ==
    IF ValidJson(data) THEN [panic |-> FALSE, records |-> <<[payload |-> data]>>]
    ELSE [panic |-> TRUE, records |-> <<>>]

\* The if / else if of the join loop: any other system leaves records nil.
Unmarshal(sys, data) ==
    IF sys = "dbs3" \/ sys = "dbs" THEN DBSUnmarshal(data)
    ELSE IF sys = "phedex" THEN PhedexUnmarshal(data)
    ELSE [panic |-> FALSE, records |-> <<>>]

\* rec["url"] = r.Url for every record of the response
Tagged(records, url) ==
    [k \in 1..Len(records) |-> [payload |-> records[k].payload, url |-> url]]

AggFanOut ==
    /\ aggPc = "start"
    /\ umap' = {urls[k] : k \in 1..Len(urls)}
    /\ req' = [r \in Reqs |->
                 IF \E k \in 1..Len(urls) : ReqOf[k] = r
                 THEN [rurl |-> urls[CHOOSE k \in 1..Len(urls) : ReqOf[k] = r],
                       args |-> "", submitted |-> TRUE]
                 ELSE req[r]]
    /\ aggPc' = "join"
    /\ UNCHANGED <<UrlQueueLimit, UrlRetry, UrlQueueSize, TotalGetCalls, TotalPostCalls,
                   workerPc, urlRequests, ts, sub, caller, task, got, log, wire, slept, mock,
                   names, system, urls, outRecords, certVars, mergeVars, now, normVars>>

\* case r := <-out: the response is unmarshalled (which may panic), its
\* records are tagged and appended, and r.Url is deleted from umap.
AggReceive(r) ==
    /\ aggPc = "join"
    /\ task[r].pc = "send"
    /\ got' = [got EXCEPT ![r] = Append(@, task[r].resp)]
    /\ task' = [task EXCEPT ![r].pc = "done"]
    /\ caller' = [caller EXCEPT ![r] = IF @ = "inline" THEN "returned" ELSE @]
    /\ LET resp == task[r].resp
           u == Unmarshal(system, resp.Data)
       IN IF u.panic
          THEN /\ aggPc' = "panicked"
               /\ UNCHANGED <<umap, outRecords>>
          ELSE /\ outRecords' = outRecords \o Tagged(u.records, resp.Url)
               /\ umap' = umap \ {resp.Url}
               /\ aggPc' = "join"
    /\ UNCHANGED <<UrlQueueLimit, UrlRetry, UrlQueueSize, TotalGetCalls, TotalPostCalls,
                   workerPc, urlRequests, req, ts, sub, log, wire, slept, mock,
                   names, system, urls, certVars, mergeVars, now, normVars>>

\* default: taken when no fetch is ready to send; exit is set when umap is
\* empty, the loop sleeps 10ms and then breaks or goes round again.
AggDefault ==
    /\ aggPc = "join"
    /\ \A r \in Reqs : task[r].pc # "send"
    /\ aggPc' = IF umap = {} THEN "returned" ELSE "sleep"
    /\ UNCHANGED <<schedVars, names, system, urls, umap, outRecords, certVars, mergeVars, now,
                   normVars>>

AggWake ==
    /\ aggPc = "sleep"
    /\ aggPc' = "join"
    /\ UNCHANGED <<schedVars, names, system, urls, umap, outRecords, certVars, mergeVars, now,
                   normVars>>

(***************************************************************************)
(* The aggregation handlers file_run_lumi (with OrderByRunLumis) and       *)
(* L_dbs3_block_run_lumi4dataset, run on the records processUrls returned  *)
(* for the filelumis API.  A field of a DASRecord is absent, a DASRecord   *)
(* ("record") or a []DASRecord of one element ("list"); val is the value   *)
(* of the one key of that record.                                          *)
(***************************************************************************)
MaxRecs == 2
MaxRun == 2
MaxLumi == 2
MaxLumiLen == 2

Absent == [shape |-> "absent", val |-> 0]
Wrapped(v) == [shape |-> "list", val |-> v]
Bare(v) == [shape |-> "record", val |-> v]
NoRow == [run |-> Absent, lumi |-> Absent, file |-> Absent, block |-> Absent,
          dataset |-> Absent]

\* The keys the handlers of the package pass to file_run_lumi, and the keys
\* of L_dbs3_block_run_lumi4dataset.
FileKeySets ==
    {<<"run_num", "lumi_section_num">>,
     <<"lumi_section_num", "run_num">>,
     <<"logical_file_name", "lumi_section_num">>,
     <<"logical_file_name", "run_num", "lumi_section_num">>,
     <<"lumi_section_num">>}
BlockKeys == <<"block_name", "run_num", "lumi_section_num">>

\* The URL of a filelumis call, as dbs_urls builds it and FetchResponse
\* returns it: the block name is query-escaped after "block_name=".
BlockUrl == <<"http://", "a", "block_name=", "a", "%23", "a">>

\* A record of the filelumis API, tagged with its URL by processUrls.
FileLumiRecs ==
    [run_num : 1..MaxRun,
     lumi_section_num : SeqsUpTo(1..MaxLumi, MaxLumiLen),
     logical_file_name : {"f"},
     url : {BlockUrl}]

HasKey(ks, key) == \E k \in 1..Len(ks) : ks[k] = key

\* url.QueryUnescape: "%23" is decoded to "#".
QueryUnescape(u) == [k \in 1..Len(u) |-> IF u[k] = "%23" THEN "#" ELSE u[k]]

\* strings.Split(rurl, "block_name=")[1]: what follows the first separator,
\* up to the next one.
RECURSIVE UpToSep(_)
UpToSep(u) ==
    IF u = <<>> \/ Head(u) = "block_name=" THEN <<>>
    ELSE <<Head(u)>> \o UpToSep(Tail(u))
RECURSIVE AfterSep(_)
AfterSep(u) ==
    IF u = <<>> THEN <<>>
    ELSE IF Head(u) = "block_name=" THEN UpToSep(Tail(u))
    ELSE AfterSep(Tail(u))

\* The row file_run_lumi builds from one filelumis record.
FileRow(rec, ks) ==
    [NoRow EXCEPT
        !.run = IF HasKey(ks, "run_num") THEN Wrapped(rec.run_num) ELSE Absent,
        !.lumi = IF HasKey(ks, "lumi_section_num")
                 THEN Wrapped(rec.lumi_section_num) ELSE Absent,
        !.file = IF HasKey(ks, "logical_file_name")
                 THEN Wrapped(rec.logical_file_name) ELSE Absent]

\* The row L_dbs3_block_run_lumi4dataset builds from one filelumis record.
BlockRow(rec, ks) ==
    [NoRow EXCEPT
        !.run = IF HasKey(ks, "run_num") THEN Wrapped(rec.run_num) ELSE Absent,
        !.lumi = IF HasKey(ks, "lumi_section_num")
                 THEN Wrapped(rec.lumi_section_num) ELSE Absent,
        !.block = IF HasKey(ks, "block_name")
                  THEN Wrapped(AfterSep(QueryUnescape(rec.url))) ELSE Absent]

\* mongo.GetValue(r, "lumi.number"), (r, "run.run_number"): the value of the
\* key in the record of the field, or in the first record of its list.
GetValue(field) == field.val

\* One iteration of the first loop of OrderByRunLumis: the lumis of the
\* record are appended to the entry of its run, or start a new entry.
MergeRecord(m, r) ==
    LET lumiList == GetValue(r.lumi)
        run == GetValue(r.run)
    IN IF \E e \in m : e.run = run
       THEN LET e == CHOOSE x \in m : x.run = run
            IN (m \ {e}) \cup {[run |-> run, lumis |-> e.lumis \o lumiList]}
       ELSE m \cup {[run |-> run, lumis |-> lumiList]}

\* rmap after the first loop of OrderByRunLumis over records.
RECURSIVE RunLumis(_, _)
RunLumis(m, records) ==
    IF records = <<>> THEN m
    ELSE RunLumis(MergeRecord(m, Head(records)), Tail(records))

\* The record the second loop of OrderByRunLumis appends for one entry.
MergedRow(e) == [NoRow EXCEPT !.run = Bare(e.run), !.lumi = Bare(e.lumis)]

CallsOrderByRunLumis ==
    /\ handler = "file_run_lumi"
    /\ Len(keys) = 2
    /\ \/ keys[1] = "run_num" /\ keys[2] = "lumi_section_num"
       \/ keys[1] = "lumi_section_num" /\ keys[2] = "run_num"

\* for _, rec := range filelumis: one row is appended to out
RowStep ==
    /\ mpc.pc = "rows"
    /\ mpc.i <= Len(filelumis)
    /\ rows' = Append(rows, IF handler = "file_run_lumi"
                            THEN FileRow(filelumis[mpc.i], keys)
                            ELSE BlockRow(filelumis[mpc.i], keys))
    /\ mpc' = [mpc EXCEPT !.i = @ + 1]
    /\ UNCHANGED <<handler, keys, filelumis, rmap, result, schedVars, certVars,
                   aggVars, now, normVars>>

\* after the loop: return out, or return OrderByRunLumis(out)
RowsDone ==
    /\ mpc.pc = "rows"
    /\ mpc.i > Len(filelumis)
    /\ IF CallsOrderByRunLumis
       THEN /\ mpc' = [pc |-> "merge", i |-> 1]
            /\ result' = result
       ELSE /\ mpc' = [pc |-> "returned", i |-> 0]
            /\ result' = rows
    /\ UNCHANGED <<handler, keys, filelumis, rows, rmap, schedVars, certVars,
                   aggVars, now, normVars>>

\* for _, r := range records
MergeStep ==
    /\ mpc.pc = "merge"
    /\ mpc.i <= Len(rows)
    /\ rmap' = MergeRecord(rmap, rows[mpc.i])
    /\ mpc' = [mpc EXCEPT !.i = @ + 1]
    /\ UNCHANGED <<handler, keys, filelumis, rows, result, schedVars, certVars,
                   aggVars, now, normVars>>

MergeLoopDone ==
    /\ mpc.pc = "merge"
    /\ mpc.i > Len(rows)
    /\ mpc' = [pc |-> "emit", i |-> 0]
    /\ UNCHANGED <<handler, keys, filelumis, rows, rmap, result, schedVars, certVars,
                   aggVars, now, normVars>>

\* for run, lumis := range rmap: the iteration order of a Go map is not
\* specified, any entry not visited yet may be the next one.
Emitted == {result[k].run.val : k \in 1..Len(result)}
MergeEmit ==
    /\ mpc.pc = "emit"
    /\ \E e \in rmap :
        /\ e.run \notin Emitted
        /\ result' = Append(result, MergedRow(e))
    /\ UNCHANGED <<handler, keys, filelumis, mpc, rows, rmap, schedVars, certVars,
                   aggVars, now, normVars>>

MergeReturn ==
    /\ mpc.pc = "emit"
    /\ \A e \in rmap : e.run \in Emitted
    /\ mpc' = [pc |-> "returned", i |-> 0]
    /\ UNCHANGED <<handler, keys, filelumis, rows, rmap, result, schedVars, certVars,
                   aggVars, now, normVars>>

(***************************************************************************)
(* Specifications of the scheduler and executor.                           *)
(***************************************************************************)
InitCertsIdle ==
    /\ Certs = <<>>
    /\ Expire = 0
    /\ TLSCertsRenewInterval = 0
    /\ gc = [c \in Callers |-> NoCall]
    /\ loads = 0
    /\ fatal = FALSE
    /\ lastLoad = 0

InitAggIdle ==
    /\ names = <<>>
    /\ system = ""
    /\ urls = <<>>
    /\ aggPc = "off"
    /\ umap = {}
    /\ outRecords = <<>>

InitMergeIdle ==
    /\ handler = ""
    /\ keys = <<>>
    /\ filelumis = <<>>
    /\ mpc = [pc |-> "off", i |-> 0]
    /\ rows = <<>>
    /\ rmap = {}
    /\ result = <<>>

InitNormIdle ==
    /\ dbsApi = ""
    /\ dbsRecords = <<>>
    /\ dbsPc = [pc |-> "off", i |-> 0]
    /\ dbsOut = <<>>

InitSchedCommon ==
    /\ UrlQueueSize = 0
    /\ TotalGetCalls = 0
    /\ TotalPostCalls = 0
    /\ now = 0
    /\ workerPc = "off"
    /\ urlRequests = <<>>
    /\ ts = [r \in Reqs |-> 0]
    /\ sub = [r \in Reqs |-> 0]
    /\ caller = [r \in Reqs |-> "idle"]
    /\ task = [r \in Reqs |-> NoTask]
    /\ got = [r \in Reqs |-> <<>>]
    /\ log = [r \in Reqs |-> <<>>]
    /\ wire = [r \in Reqs |-> <<>>]
    /\ slept = [r \in Reqs |-> 0]

\* M = 3 concurrent submissions of a valid URL, a transport that may fail.
Init ==
    /\ UrlQueueLimit \in 0..MaxLimit
    /\ UrlRetry \in 0..MaxRetry
    /\ req = [r \in Reqs |-> [rurl |-> GoodUrl, args |-> "", submitted |-> TRUE]]
    /\ mock = {"ok", "transport"}
    /\ InitSchedCommon
    /\ InitCertsIdle
    /\ InitAggIdle
    /\ InitMergeIdle
    /\ InitNormIdle

Next ==
    \/ \E r \in Reqs : FetchCall(r)
    \/ StartWorker
    \/ \E r \in Reqs : WorkerReceive(r)
    \/ WorkerDefault
    \/ WorkerDispatch
    \/ WorkerIdle
    \/ \E r \in Reqs : FREnter(r)
    \/ \E r \in Reqs : FRReturn(r)
    \/ \E r \in Reqs : Consume(r)
    \/ Tick

Spec == Init /\ [][Next]_vars

(***************************************************************************)
(* Fair scheduling of the goroutines: the worker, every fetch and every    *)
(* consumer of a result channel keep running; HTTP attempts terminate.     *)
(***************************************************************************)
Fairness ==
    /\ WF_vars(StartWorker \/ Worker)
    /\ \A r \in Reqs : WF_vars(TaskStep(r) \/ Consume(r))

FairSpec == Spec /\ Fairness

\* One fetch of any URL and body, over a transport with every kind of failure.
InitFetch ==
    /\ UrlQueueLimit \in {0, 1}
    /\ UrlRetry \in 0..MaxRetry
    /\ \E u \in Urls, a \in Bodies :
          req = [r \in Reqs |-> IF r = "r1"
                                THEN [rurl |-> u, args |-> a, submitted |-> TRUE]
                                ELSE NoReq]
    /\ mock = Outcomes
    /\ InitSchedCommon
    /\ InitCertsIdle
    /\ InitAggIdle
    /\ InitMergeIdle
    /\ InitNormIdle

SpecFetch == InitFetch /\ [][Next]_vars

\* The certificate manager alone: concurrent callers of GetCerts, no fetch.
InitCerts ==
    /\ Certs = <<>>
    /\ Expire = 0
    /\ TLSCertsRenewInterval \in Intervals
    /\ gc = [c \in Callers |-> NoCall]
    /\ loads = 0
    /\ fatal = FALSE
    /\ lastLoad = 0
    /\ UrlQueueLimit = 0
    /\ UrlRetry = 0
    /\ req = [r \in Reqs |-> NoReq]
    /\ mock = {}
    /\ InitSchedCommon
    /\ InitAggIdle
    /\ InitMergeIdle
    /\ InitNormIdle

NextCerts ==
    \/ \E c \in Callers : GCCall(c)
    \/ \E c \in Callers : GCCheck(c)
    \/ \E c \in Callers : GCSetExpire(c)
    \/ \E c \in Callers : GCLoad(c)
    \/ \E c \in Callers : GCReturn(c)
    \/ TickCerts

SpecCerts == InitCerts /\ [][NextCerts]_vars

(***************************************************************************)
(* One aggregation call: processUrls over the scheduler and executor.      *)
(***************************************************************************)
InitAgg ==
    /\ UrlQueueLimit \in {0, 1}
    /\ UrlRetry \in 0..MaxRetry
    /\ req = [r \in Reqs |-> NoReq]
    /\ mock = {"ok", "transport"}
    /\ names = <<>>
    /\ system \in Systems
    /\ urls \in PlannedUrls
    /\ aggPc = "start"
    /\ umap = {}
    /\ outRecords = <<>>
    /\ InitSchedCommon
    /\ InitCertsIdle
    /\ InitMergeIdle
    /\ InitNormIdle

NextAgg ==
    \/ AggFanOut
    \/ \E r \in Reqs : FetchCall(r)
    \/ StartWorker
    \/ \E r \in Reqs : WorkerReceive(r)
    \/ WorkerDefault
    \/ WorkerDispatch
    \/ WorkerIdle
    \/ \E r \in Reqs : FREnter(r)
    \/ \E r \in Reqs : FRReturn(r)
    \/ \E r \in Reqs : AggReceive(r)
    \/ AggDefault
    \/ AggWake

SpecAgg == InitAgg /\ [][NextAgg]_vars

(***************************************************************************)
(* One call of an aggregation handler on the records of the filelumis API. *)
(***************************************************************************)
InitMerge ==
    /\ \/ handler = "file_run_lumi" /\ keys \in FileKeySets
       \/ handler = "block_run_lumi4dataset" /\ keys = BlockKeys
    /\ filelumis \in SeqsUpTo(FileLumiRecs, MaxRecs)
    /\ mpc = [pc |-> "rows", i |-> 1]
    /\ rows = <<>>
    /\ rmap = {}
    /\ result = <<>>
    /\ UrlQueueLimit = 0
    /\ UrlRetry = 0
    /\ req = [r \in Reqs |-> NoReq]
    /\ mock = {}
    /\ InitSchedCommon
    /\ InitCertsIdle
    /\ InitAggIdle
    /\ InitNormIdle

NextMerge ==
    \/ RowStep
    \/ RowsDone
    \/ MergeStep
    \/ MergeLoopDone
    \/ MergeEmit
    \/ MergeReturn

SpecMerge == InitMerge /\ [][NextMerge]_vars

(***************************************************************************)
(* Properties of the scheduler and the executor.                           *)
(***************************************************************************)
Delivered(r) == Len(got[r]) = 1
Queued == UrlQueueLimit > 0
InHeap(r) == \E k \in 1..Len(urlRequests) : urlRequests[k] = r

\* The fetches the worker has started with "go fetch" whose response has not
\* been received yet.
InFlight == {r \in Reqs : Queued /\ task[r].pc \in {"call", "do", "ret", "send"}}

\* C1: with UrlQueueLimit = K > 0, at most K fetches dispatched by
\* URLFetchWorker are undelivered at any time.
C1_InFlightAtMostLimit == Queued => Cardinality(InFlight) <= UrlQueueLimit

\* C2: in queued mode every request submitted through Fetch is eventually
\* popped, dispatched and has its response delivered on its result channel:
\* from some point on, every request that was submitted has been delivered
\* (a delivered response stays delivered and each request is submitted once).
C2_AllComplete ==
    <>[](\A r \in Reqs : (Queued /\ caller[r] # "idle") => Delivered(r))

C2_Witness ==
    /\ Queued
    /\ Cardinality(Reqs) > UrlQueueLimit
    /\ \A r \in Reqs : Delivered(r) /\ caller[r] = "returned"

\* C3: a transport that fails N times in a row and then succeeds: N <= UrlRetry
\* gives a response without error; N > UrlRetry gives the error of the last
\* attempt after exactly UrlRetry + 1 calls of FetchResponse.
TransportOnly(l) == \A j \in 1..Len(l) : l[j] \in {"transport", "ok"}
C3_RetryBound ==
    \A r \in Reqs :
        /\ Len(log[r]) <= UrlRetry + 1
        /\ (Delivered(r) /\ TransportOnly(log[r])) =>
              LET l == log[r]
                  resp == got[r][1]
              IN IF l[Len(l)] = "ok"
                 THEN \* N = Len(l) - 1 failures, then a success
                      /\ Len(l) - 1 <= UrlRetry
                      /\ resp.Error = "nil"
                      /\ resp.attempt = Len(l)
                 ELSE \* the first UrlRetry + 1 attempts all failed: N > UrlRetry
                      /\ Len(l) = UrlRetry + 1
                      /\ resp.Error = "transport"
                      /\ resp.attempt = UrlRetry + 1

C3_Witness ==
    \E r \in Reqs :
        /\ Delivered(r)
        /\ UrlRetry >= 1
        /\ Len(log[r]) = UrlRetry + 1
        /\ \A j \in 1..Len(log[r]) : log[r][j] = "transport"
        /\ got[r][1].Error = "transport"

\* C4 as stated: whenever Fetch has returned, exactly one Response has been
\* written to the caller's channel, in direct and in queued mode.
C4_OneResponseBeforeReturn ==
    \A r \in Reqs : caller[r] = "returned" => Delivered(r)

\* C4 amended: no channel ever carries more than one Response; in direct mode
\* Fetch has written it when it returns; in queued mode Fetch returns as soon
\* as the worker has taken the request, which is then in the heap or being
\* fetched, and the Response is written later by the dispatched fetch.
C4_OneResponse ==
    \A r \in Reqs :
        /\ Len(got[r]) <= 1
        /\ (caller[r] = "returned" /\ ~Queued) => Delivered(r)
        /\ (caller[r] = "returned" /\ Queued) => (InHeap(r) \/ task[r].pc # "none")
        /\ Delivered(r) => task[r].pc = "done"

C4_Witness ==
    /\ ~Queued
    /\ \E r \in Reqs : caller[r] = "returned" /\ Delivered(r)
    /\ \E r \in Reqs : caller[r] = "inline" /\ task[r].pc = "send"

\* C7: an invalid URL gets exactly one attempt and no backoff sleep.
C7_ValidationNotRetried ==
    \A r \in Reqs :
        (req[r].submitted /\ ~validateUrl(ReplaceHash(req[r].rurl))) =>
            (Len(log[r]) <= 1 /\ slept[r] = 0 /\ task[r].i <= 1)

RECURSIVE SumLen(_, _)
SumLen(f, S) ==
    IF S = {} THEN 0
    ELSE LET x == CHOOSE y \in S : TRUE
         IN Len(f[x]) + SumLen(f, S \ {x})

C9_InvalidNoNetwork ==
    /\ TotalGetCalls + TotalPostCalls = SumLen(wire, Reqs)
    /\ \A r \in Reqs :
        (req[r].submitted /\ (req[r].rurl = <<>> \/ ~PatternUrl(req[r].rurl))) =>
            /\ wire[r] = <<>>
            /\ task[r].pc # "do"
            /\ task[r].pc \in {"ret", "send", "done"} => task[r].resp.Error = "Invalid URL"
            /\ \A k \in 1..Len(got[r]) : got[r][k].Error = "Invalid URL"

C9_Witness ==
    \E r \in Reqs :
        /\ req[r].rurl # <<>>
        /\ ~PatternUrl(req[r].rurl)
        /\ Delivered(r)
        /\ got[r][1].Error = "Invalid URL"
        /\ TotalGetCalls = 0 /\ TotalPostCalls = 0

\* C10: every '#' of the URL is replaced by '%23' in the URL that each attempt
\* hands to client.Do and in the Url field of the response.
Encoded(u) == [k \in 1..Len(u) |-> IF u[k] = "#" THEN "%23" ELSE u[k]]
C10_HashEncoded ==
    \A r \in Reqs :
        /\ \A j \in 1..Len(wire[r]) :
              ~Contains(wire[r][j], "#") /\ wire[r][j] = Encoded(req[r].rurl)
        /\ task[r].resp.attempt >= 1 =>
              (~Contains(task[r].resp.Url, "#") /\ task[r].resp.Url = Encoded(req[r].rurl))
        /\ \A k \in 1..Len(got[r]) : ~Contains(got[r][k].Url, "#")

C10_Witness ==
    \E r \in Reqs :
        /\ Contains(req[r].rurl, "#")
        /\ Len(wire[r]) = 2
        /\ Delivered(r)

(***************************************************************************)
(* Properties of the certificate manager.                                  *)
(***************************************************************************)
Refreshing == {c \in Callers : gc[c].pc = "load"}

\* C5: concurrent GetCerts calls made while the cached certificates are
\* outside the renewal window never have two loads (tlsCerts) in flight at the
\* same time.
C5_OneRefreshInFlight == Certs # <<>> => Cardinality(Refreshing) <= 1

\* C6: GetCerts never returns certificates whose NotAfter is earlier than the
\* time of the return.
C6_NeverServeExpired ==
    \A c \in Callers :
        (gc[c].pc = "idle" /\ gc[c].ret # <<>>) => CertExpire(gc[c].ret) >= gc[c].retAt

(***************************************************************************)
(* Properties of the aggregator's fan-out and fan-in.                      *)
(***************************************************************************)
Launched == {r \in Reqs : req[r].submitted}
AggEnded == aggPc \in {"returned", "panicked"}

\* A response for the planned URL u has been received by the join loop.
ReceivedFor(u) == \E r \in Launched : req[r].rurl = u /\ Len(got[r]) >= 1

\* C11: processUrls returns only after a response has been received for each
\* planned URL, and once every launched fetch has delivered its response the
\* outstanding set is empty (each received response removed its URL), which is
\* the one condition under which the join loop exits.
C11_JoinCompletes ==
    /\ aggPc = "returned" => \A k \in 1..Len(urls) : ReceivedFor(urls[k])
    /\ (aggPc \in {"join", "sleep"} /\ Launched # {} /\ \A r \in Launched : Delivered(r))
          => umap = {}

\* C12: no response is received twice, and once the aggregation call has
\* ended, by return or by panic, no fetch is left trying to send its response
\* on the channel nobody reads any more.
C12_ConsumedOnce ==
    /\ \A r \in Reqs : Len(got[r]) <= 1
    /\ AggEnded => \A r \in Reqs : task[r].pc # "send"

\* C13: processUrls never returns a record set when the response of a planned
\* URL carried an error.
C13_CompleteOrFailure ==
    aggPc = "returned" =>
        \A r \in Launched : \A k \in 1..Len(got[r]) : got[r][k].Error = "nil"

(***************************************************************************)
(* Properties of the order of dispatch and of the submission.              *)
(***************************************************************************)
\* The step in which URLFetchWorker pops request r and starts its fetch.
Dispatches(r) == Queued /\ task[r].pc = "none" /\ task'[r].pc = "call"
Pending(b) == sub[b] > 0

\* C14 as stated: a request is dispatched no later than every request that
\* was submitted after it (plain FIFO order of the calls of Fetch).
C14_FifoDispatch ==
    [][\A r \in Reqs : Dispatches(r) =>
          \A b \in Reqs : Pending(b) => sub[r] <= sub[b]]_vars

\* C14 amended: the request dispatched has the smallest submission timestamp
\* (seconds) of the heap, so of two queued requests whose timestamps differ
\* the earlier one is dispatched first; requests submitted within the same
\* second are dispatched in an order the heap's layout decides.
C14_MinTsFirst ==
    [][\A r \in Reqs : Dispatches(r) =>
          /\ InHeap(r)
          /\ \A k \in 1..Len(urlRequests) : ts[r] <= ts[urlRequests[k]]]_vars

\* A dispatch has happened while requests of two different seconds wait.
C14_Witness ==
    /\ Queued
    /\ \E r \in Reqs : task[r].pc = "call"
    /\ \E b, c \in Reqs : InHeap(b) /\ InHeap(c) /\ ts[b] < ts[c]

\* C15: in queued mode a call of Fetch never waits for another goroutine: no
\* caller is held in its send on UrlRequestChannel while the worker is not at
\* its select (not started, or asleep in the default branch).
C15_SubmitNeverBlocks ==
    \A r \in Reqs : ~(Queued /\ caller[r] = "send" /\ workerPc \in {"off", "sleep"})

\* C16: with UrlQueueLimit = 0 Fetch runs fetch itself: nothing is sent on
\* UrlRequestChannel, no timestamp is taken, the heap stays empty, a call that
\* has been made is in the executor, and a call can always be made whatever
\* the number of fetches in progress.
C16_DirectBypassesQueue ==
    UrlQueueLimit = 0 =>
        /\ urlRequests = <<>>
        /\ \A r \in Reqs :
            /\ caller[r] # "send"
            /\ ts[r] = 0 /\ sub[r] = 0
            /\ caller[r] # "idle" => task[r].pc # "none"
            /\ (caller[r] = "idle" /\ req[r].submitted) => ENABLED FetchCall(r)

\* Three fetches in client.Do at the same time, none of them queued.
C16_Witness ==
    /\ UrlQueueLimit = 0
    /\ urlRequests = <<>>
    /\ \A r \in Reqs : caller[r] = "inline" /\ task[r].pc = "do"
    /\ UrlQueueSize = Cardinality(Reqs)

(***************************************************************************)
(* Properties of the aggregation handlers.                                 *)
(***************************************************************************)
HandlerReturned == mpc.pc = "returned"
Merged == HandlerReturned /\ CallsOrderByRunLumis

\* The mapping run -> lumis that a list of output records stands for.
MappingOf(records) == {[run |-> records[k].run.val, lumis |-> records[k].lumi.val] :
                          k \in 1..Len(records)}

\* C17: merging the input with itself, or merging the result of the merge
\* again, gives the run -> lumis mapping of merging the input once.
C17_MergeIdempotent ==
    Merged =>
        /\ MappingOf(result) = rmap
        /\ RunLumis({}, rows \o rows) = rmap
        /\ RunLumis({}, result) = rmap

\* The lumis of the input records of one run, in order of appearance.
RECURSIVE LumisOfRun(_, _)
LumisOfRun(records, run) ==
    IF records = <<>> THEN <<>>
    ELSE (IF Head(records).run.val = run THEN Head(records).lumi.val ELSE <<>>)
         \o LumisOfRun(Tail(records), run)

\* A list without its repetitions, every number at its first appearance.
RECURSIVE Distinct(_, _)
Distinct(seen, l) ==
    IF l = <<>> THEN <<>>
    ELSE IF Head(l) \in seen THEN Distinct(seen, Tail(l))
    ELSE <<Head(l)>> \o Distinct(seen \cup {Head(l)}, Tail(l))

\* C18: one output record per distinct run of the input, whose lumi list is
\* the union of the lumi numbers of the input records of that run, in order
\* of appearance.
C18_OneRecordPerRun ==
    Merged =>
        /\ Cardinality(Emitted) = Len(result)
        /\ Emitted = {rows[k].run.val : k \in 1..Len(rows)}
        /\ \A k \in 1..Len(result) :
              result[k].lumi.val = Distinct({}, LumisOfRun(rows, result[k].run.val))

\* The runs of a list of records, each at its first appearance.
RunsOf(records) == [k \in 1..Len(records) |-> records[k].run.val]
FirstSeenRuns(records) == Distinct({}, RunsOf(records))

\* C19: the output records are in the order in which their runs first appear
\* in the input.
C19_FirstSeenOrder == Merged => RunsOf(result) = FirstSeenRuns(rows)

\* C20: in every record a handler returns, each of the fields run, lumi,
\* file, block and dataset that is present is a list of one Record.
RelationShapes(row) == {row.run.shape, row.lumi.shape, row.file.shape, row.block.shape,
                        row.dataset.shape}
C20_RelationsAreLists ==
    HandlerReturned =>
        \A k \in 1..Len(result) : RelationShapes(result[k]) \subseteq {"absent", "list"}


(***************************************************************************)
(* The whole process: one fetch of a valid or an invalid URL over a        *)
(* transport with every kind of failure, next to callers of GetCerts.      *)
(* log.Fatal exits the process: after it no goroutine takes a step.        *)
(***************************************************************************)
BadUrl == <<"a">>

InitProc ==
    /\ UrlQueueLimit \in {0, 1}
    /\ UrlRetry \in 0..MaxRetry
    /\ \E u \in {GoodUrl, BadUrl} :
          req = [r \in Reqs |-> IF r = "r1"
                                THEN [rurl |-> u, args |-> "", submitted |-> TRUE]
                                ELSE NoReq]
    /\ mock = Outcomes
    /\ InitSchedCommon
    /\ Certs = <<>>
    /\ Expire = 0
    /\ TLSCertsRenewInterval = ClockStep
    /\ gc = [c \in Callers |-> NoCall]
    /\ loads = 0
    /\ fatal = FALSE
    /\ lastLoad = 0
    /\ InitAggIdle
    /\ InitMergeIdle
    /\ InitNormIdle

NextProc ==
    \/ ~fatal /\ \E r \in Reqs : FetchCall(r)
    \/ ~fatal /\ StartWorker
    \/ ~fatal /\ \E r \in Reqs : WorkerReceive(r)
    \/ ~fatal /\ WorkerDefault
    \/ ~fatal /\ WorkerDispatch
    \/ ~fatal /\ WorkerIdle
    \/ ~fatal /\ \E r \in Reqs : FREnter(r)
    \/ ~fatal /\ \E r \in Reqs : FRReturn(r)
    \/ ~fatal /\ \E r \in Reqs : Consume(r)
    \/ ~fatal /\ Tick
    \/ GCCall("c1")
    \/ GCCheck("c1")
    \/ GCSetExpire("c1")
    \/ GCLoad("c1")
    \/ GCReturn("c1")

SpecProc == InitProc /\ [][NextProc]_vars

(***************************************************************************)
(* C21: when tlsCerts returns an error and no bundle is cached, GetCerts   *)
(* calls log.Fatal and does not return (in particular it does not return   *)
(* an empty bundle with a nil error); the process exits only in this way:  *)
(* no step that ends an attempt of a fetch (invalid URL, transport or      *)
(* decode error) and no step of the worker exits the process.              *)
(***************************************************************************)
LoadEnds(c) == gc[c].pc = "load" /\ gc'[c].pc # "load"

MaxRaw == 1

JsonValues == {"nil", "string", "strings", "numbers"}
RawKeys == {"dataset", "physics_group_name", "origin_site_name",
            "parent_logical_file_name", "run_num"}
RawRecords == [RawKeys -> JsonValues]
OutKeys == RawKeys \cup {"name", "run_number"}
DbsApis == {"dataset_info", "datasets", "datasetlist", "physicsgroup", "site4dataset",
            "fileparents", "runs_via_dataset", "runs", "files"}

\* the keys a decoded record holds, as they are
AsDecoded(rec) ==
    [k \in OutKeys |-> IF k \in RawKeys /\ rec[k] # "nil" THEN rec[k] ELSE "none"]

\* x.([]interface{}) succeeds
IsList(v) == v \in {"strings", "numbers"}
Elements(v) == IF v = "strings" THEN <<"string">> ELSE <<"number">>

\* rec["name"] = rec[from]; delete(rec, from)
Renamed(rec, from) ==
    [AsDecoded(rec) EXCEPT !["name"] = rec[from], ![from] = "none"]

\* mongo.DASRecord{"name": rec["origin_site_name"], "dataset": rec["dataset"]}
SiteRecord(rec) ==
    [k \in OutKeys |-> IF k = "name" THEN rec["origin_site_name"]
                       ELSE IF k = "dataset" THEN rec["dataset"]
                       ELSE "none"]

\* one record per element v of the list: r[key] = v.(string), or
\* fmt.Sprintf("%d", int(v.(float64))); a failed type assertion panics
Expanded(v, key, elem) ==
    IF ~IsList(v) \/ \E j \in 1..Len(Elements(v)) : Elements(v)[j] # elem
    THEN [panic |-> TRUE, records |-> <<>>]
    ELSE [panic |-> FALSE,
          records |-> [j \in 1..Len(Elements(v)) |->
                         [k \in OutKeys |-> IF k = key THEN "string" ELSE "none"]]]

\* the body of the loop of the api's branch, for one decoded record
DBSRecord(api, rec) ==
    IF api \in {"dataset_info", "datasets", "datasetlist"}
    THEN [panic |-> FALSE, records |-> <<Renamed(rec, "dataset")>>]
    ELSE IF api = "physicsgroup"
    THEN [panic |-> FALSE, records |-> <<Renamed(rec, "physics_group_name")>>]
    ELSE IF api = "site4dataset"
    THEN [panic |-> FALSE, records |-> <<SiteRecord(rec)>>]
    ELSE IF api = "fileparents"
    THEN Expanded(rec["parent_logical_file_name"], "name", "string")
    ELSE IF api \in {"runs_via_dataset", "runs"}
    THEN Expanded(rec["run_num"], "run_number", "number")
    ELSE [panic |-> FALSE, records |-> <<AsDecoded(rec)>>]

DBSLoop ==
    /\ dbsPc.pc = "loop"
    /\ dbsPc.i <= Len(dbsRecords)
    /\ LET res == DBSRecord(dbsApi, dbsRecords[dbsPc.i])
       IN IF res.panic
          THEN dbsPc' = [dbsPc EXCEPT !.pc = "panicked"] /\ dbsOut' = dbsOut
          ELSE dbsPc' = [dbsPc EXCEPT !.i = @ + 1] /\ dbsOut' = dbsOut \o res.records
    /\ UNCHANGED <<dbsApi, dbsRecords, schedVars, certVars, aggVars, mergeVars, now>>

DBSReturn ==
    /\ dbsPc.pc = "loop"
    /\ dbsPc.i > Len(dbsRecords)
    /\ dbsPc' = [dbsPc EXCEPT !.pc = "returned"]
    /\ UNCHANGED <<dbsApi, dbsRecords, dbsOut, schedVars, certVars, aggVars, mergeVars, now>>

InitNorm ==
    /\ dbsApi \in DbsApis
    /\ dbsRecords \in SeqsUpTo(RawRecords, MaxRaw)
    /\ dbsPc = [pc |-> "loop", i |-> 1]
    /\ dbsOut = <<>>
    /\ UrlQueueLimit = 0
    /\ UrlRetry = 0
    /\ req = [r \in Reqs |-> NoReq]
    /\ mock = {}
    /\ InitSchedCommon
    /\ InitCertsIdle
    /\ InitAggIdle
    /\ InitMergeIdle

NextNorm ==
    \/ DBSLoop
    \/ DBSReturn

SpecNorm == InitNorm /\ [][NextNorm]_vars

(***************************************************************************)
(* C22: a decoded record that lacks the source field of its api makes      *)
(* DBSUnmarshal fail: the call does not return, and no record with a nil   *)
(* value is emitted.                                                       *)
(***************************************************************************)
SourceFields(api) ==
    IF api \in {"dataset_info", "datasets", "datasetlist"} THEN {"dataset"}
    ELSE IF api = "physicsgroup" THEN {"physics_group_name"}
    ELSE IF api = "site4dataset" THEN {"origin_site_name", "dataset"}
    ELSE IF api = "fileparents" THEN {"parent_logical_file_name"}
    ELSE IF api \in {"runs_via_dataset", "runs"} THEN {"run_num"}
    ELSE {}

C22_MissingFieldIsFatal ==
    /\ dbsPc.pc = "returned" =>
          \A i \in 1..Len(dbsRecords) :
             \A f \in SourceFields(dbsApi) : dbsRecords[i][f] # "nil"
    /\ \A j \in 1..Len(dbsOut) : \A k \in OutKeys : dbsOut[j][k] # "nil"


(***************************************************************************)
(* C23: a call of GetCerts takes the cached path exactly when a bundle is  *)
(* cached and now - Expire <= TLSCertsRenewInterval; on that path it does  *)
(* not invoke the loader and leaves Certs and Expire as they are;          *)
(* otherwise it goes on to set Expire and to invoke the loader.            *)
(***************************************************************************)
Checks(c) == gc[c].pc = "check" /\ gc'[c].pc # "check"
OnCachedPath(c) == gc[c].pc \in {"check", "return"} /\ gc'[c] # gc[c] /\ gc'[c].path = "cached"

Planned == {urls[k] : k \in 1..Len(urls)}

C24_UrlIsPlanned ==
    \A j \in 1..Len(outRecords) :
       /\ outRecords[j].url \in Planned
       /\ \E r \in Launched : Len(got[r]) >= 1 /\ outRecords[j].url = got[r][1].Url


(***************************************************************************)
(* C25: when URLFetchWorker has slept and evaluates                        *)
(* UrlQueueSize < UrlQueueLimit, the counter is the number of fetches it   *)
(* has dispatched whose response has not been delivered yet, those that    *)
(* sleep in the retry backoff included.                                    *)
(***************************************************************************)
C25_CounterBracketsLifetime ==
    (Queued /\ workerPc = "sleep") => UrlQueueSize = Cardinality(InFlight)


(***************************************************************************)
(* Two concurrent fetches, each of a valid or an invalid URL, with or      *)
(* without a body, over a transport with every kind of failure.            *)
(***************************************************************************)
InitCount ==
    /\ UrlQueueLimit \in {0, 1}
    /\ UrlRetry \in 0..MaxRetry
    /\ \E u1 \in {GoodUrl, BadUrl}, u2 \in {GoodUrl, BadUrl}, a1 \in Bodies, a2 \in Bodies :
          req = [r \in Reqs |->
                   IF r = "r1" THEN [rurl |-> u1, args |-> a1, submitted |-> TRUE]
                   ELSE IF r = "r2" THEN [rurl |-> u2, args |-> a2, submitted |-> TRUE]
                   ELSE NoReq]
    /\ mock = Outcomes
    /\ InitSchedCommon
    /\ InitCertsIdle
    /\ InitAggIdle
    /\ InitMergeIdle
    /\ InitNormIdle

SpecCount == InitCount /\ [][Next]_vars

(***************************************************************************)
(* C26: an attempt with a body is a POST, one without is a GET; whatever   *)
(* the interleaving, TotalPostCalls is the number of attempts with a valid *)
(* URL and a body and TotalGetCalls the number of attempts with a valid    *)
(* URL and no body, every attempt of a retried fetch counted once.         *)
(***************************************************************************)
WithBody == {r \in Reqs : Len(req[r].args) > 0}

C26_MethodAndCounters ==
    /\ TotalPostCalls = SumLen(wire, WithBody)
    /\ TotalGetCalls = SumLen(wire, Reqs \ WithBody)
    /\ \A r \in Reqs :
          /\ Len(wire[r]) = Len(SelectSeq(log[r], LAMBDA o : o # "invalid"))
                              + (IF task[r].pc = "do" THEN 1 ELSE 0)
          /\ task[r].pc = "do" =>
                task[r].resp.Method = (IF r \in WithBody THEN "POST" ELSE "GET")
          /\ \A k \in 1..Len(got[r]) :
                got[r][k].Method = (IF wire[r] = <<>> THEN ""
                                    ELSE IF r \in WithBody THEN "POST" ELSE "GET")

\* a POST in its second attempt runs next to a GET
C26_Witness ==
    /\ task["r1"].pc = "do"
    /\ task["r2"].pc = "do"
    /\ req["r1"].args # ""
    /\ req["r2"].args = ""
    /\ TotalPostCalls = 2
    /\ TotalGetCalls = 1


(***************************************************************************)
(* C27: UrlQueueSize is never negative and is the number of FetchResponse  *)
(* calls that are executing; whichever way a call returns (invalid URL,    *)
(* transport error, decode error, success) it has decremented the counter  *)
(* once, so the counter is 0 when no call is executing.                    *)
(***************************************************************************)
Executing == {r \in Reqs : task[r].pc \in {"do", "ret"}}

C27_CounterBalanced ==
    /\ UrlQueueSize >= 0
    /\ UrlQueueSize = Cardinality(Executing)
    /\ Executing = {} => UrlQueueSize = 0

\* calls have returned for an invalid URL, with an error of the transport or
\* of the decoding, and with success, and none is executing
C27_Witness ==
    /\ Executing = {}
    /\ \E r \in Reqs : \E k \in 1..Len(log[r]) : log[r][k] = "invalid"
    /\ \E r \in Reqs : \E k \in 1..Len(log[r]) : log[r][k] \in DecodeOutcomes \cup {"transport"}
    /\ \E r \in Reqs : \E k \in 1..Len(log[r]) : log[r][k] = "ok"


(***************************************************************************)
(* C28: a request URLFetchWorker has received is in the heap until it is   *)
(* popped and is never there twice; a request enters the heap only by the  *)
(* receive of its own submission and leaves it only by the pop that starts *)
(* its fetch, which runs with the request's own URL and delivers on the    *)
(* request's own channel; at most one response is sent per request, and    *)
(* the error of a response is the error of the fetch's last attempt.       *)
(***************************************************************************)
LastOutcome(r) == log[r][Len(log[r])]

C28_NoLossNoDuplicate ==
    /\ [](Queued =>
            /\ \A i, j \in 1..Len(urlRequests) : urlRequests[i] = urlRequests[j] => i = j
            /\ \A r \in Reqs :
                 /\ caller[r] \in {"idle", "send"} => ~InHeap(r) /\ task[r].pc = "none"
                 /\ caller[r] = "returned" => (InHeap(r) <=> task[r].pc = "none")
                 /\ Len(got[r]) <= 1
                 /\ task[r].pc \in {"do", "ret", "send", "done"} =>
                       task[r].resp.Url = ReplaceHash(req[r].rurl)
                 /\ \A k \in 1..Len(got[r]) :
                       /\ got[r][k] = task[r].resp
                       /\ log[r] # <<>>
                       /\ got[r][k].Error = (IF LastOutcome(r) = "ok" THEN "nil"
                                             ELSE LastOutcome(r)))
    /\ [][Queued => \A r \in Reqs :
            /\ (~InHeap(r) /\ InHeap(r)') => (caller[r] = "send" /\ caller'[r] = "returned")
            /\ (InHeap(r) /\ ~InHeap(r)') => Dispatches(r)
            /\ Dispatches(r) => (InHeap(r) /\ ~InHeap(r)')
            /\ caller[r] = "returned" => caller'[r] = "returned"]_vars

\* every request went through the heap and was delivered, one with an error
C28_Witness ==
    /\ Queued
    /\ \A r \in Reqs : caller[r] = "returned" /\ Delivered(r)
    /\ \E r \in Reqs : got[r][1].Error # "nil"
    /\ \E r \in Reqs : got[r][1].Error = "nil"


(***************************************************************************)
(* C29: URLFetchWorker dispatches only from its default branch, which it   *)
(* enters only when no request waits on the channel; at the dispatch the   *)
(* heap is not empty, UrlQueueSize < UrlQueueLimit, and the timestamp of   *)
(* the request dispatched is at most that of every request left in the     *)
(* heap.  At its select with a request waiting the worker does nothing but *)
(* receive.                                                                *)
(***************************************************************************)
Waiting == {r \in Reqs : caller[r] = "send"}

C29_DispatchGuarded ==
    [][/\ \A r \in Reqs : Dispatches(r) =>
             /\ workerPc = "sleep"
             /\ Len(urlRequests) > 0
             /\ UrlQueueSize < UrlQueueLimit
             /\ \A k \in 1..Len(urlRequests') : ts[r] <= ts[urlRequests'[k]]
       /\ (workerPc = "select" /\ workerPc' = "sleep") => Waiting = {}
       /\ (workerPc = "select" /\ Waiting # {}) => workerPc' = "select"]_vars

\* a request was dispatched while another one, submitted during the worker's
\* sleep, waits to be received
C29_Witness ==
    /\ Queued
    /\ workerPc = "select"
    /\ Waiting # {}
    /\ \E r \in Reqs : task[r].pc = "call"
    /\ \E b \in Reqs : InHeap(b)

\* C29 as stated: a dispatch happens only in a state where no submitted
\* request is waiting to be received.
C29_DispatchOnlyWhenNoneWaiting ==
    [][\A r \in Reqs : Dispatches(r) =>
          /\ Len(urlRequests) > 0
          /\ UrlQueueSize < UrlQueueLimit
          /\ \A k \in 1..Len(urlRequests') : ts[r] <= ts[urlRequests'[k]]
          /\ Waiting = {}]_vars


(***************************************************************************)
(* The URL lists the handlers plan.  dbs_urls builds one URL per block of  *)
(* find_blocks, the block name escaped by url.QueryEscape, and returns     *)
(* utils.List2Set of them (the run arguments and validFileOnly=1 are the   *)
(* same suffix on every URL and are left out); dataset4site_release builds *)
(* one URL per dataset of dataset4release and appends it unless            *)
(* utils.InList finds it in the list.  A block name is a dataset name, '#' *)
(* and an identifier.                                                      *)
(***************************************************************************)
MaxNames == 2

BlockNames == {<<"a">>, <<"a", "#", "a">>}
DatasetNames == {<<"a">>, <<"a", "a">>}
DbsBase == <<"http://", "a", "block_name=">>
PhedexBase == <<"http://", "a", "dataset=">>

QueryEscape(u) == [k \in 1..Len(u) |-> IF u[k] = "#" THEN "%23" ELSE u[k]]

InList(x, list) == \E i \in 1..Len(list) : list[i] = x

RECURSIVE AppendNew(_, _)
AppendNew(list, more) ==
    IF more = <<>> THEN list
    ELSE AppendNew(IF InList(Head(more), list) THEN list ELSE Append(list, Head(more)),
                   Tail(more))

List2Set(list) == AppendNew(<<>>, list)

\* Faulty variant: the URLs are returned as they were built.
dbs_urls_as_built(blocks) == [k \in 1..Len(blocks) |-> DbsBase \o QueryEscape(blocks[k])]

dbs_urls(blocks) == List2Set([k \in 1..Len(blocks) |-> DbsBase \o QueryEscape(blocks[k])])

dataset4site_release_urls(datasets) ==
    AppendNew(<<>>, [k \in 1..Len(datasets) |-> PhedexBase \o datasets[k]])

InitPlan ==
    /\ UrlQueueLimit \in {0, 1}
    /\ UrlRetry \in 0..MaxRetry
    /\ req = [r \in Reqs |-> NoReq]
    /\ mock = {"ok", "transport"}
    /\ \/ /\ handler = "file_run_lumi"
          /\ system = "dbs3"
          /\ names \in SeqsUpTo(BlockNames, MaxNames)
          /\ urls = dbs_urls(names)
       \/ /\ handler = "dataset4site_release"
          /\ system = "phedex"
          /\ names \in SeqsUpTo(DatasetNames, MaxNames)
          /\ urls = dataset4site_release_urls(names)
    /\ aggPc = "start"
    /\ umap = {}
    /\ outRecords = <<>>
    /\ keys = <<>>
    /\ filelumis = <<>>
    /\ mpc = [pc |-> "off", i |-> 0]
    /\ rows = <<>>
    /\ rmap = {}
    /\ result = <<>>
    /\ InitSchedCommon
    /\ InitCertsIdle
    /\ InitNormIdle

SpecPlan == InitPlan /\ [][NextAgg]_vars

(***************************************************************************)
(* C30: the URL list a handler hands to processUrls has no duplicates (and *)
(* holds the URL of every name the handler planned from); hence one fetch  *)
(* is launched per entry of umap, while the join loop runs umap holds one  *)
(* entry per fetch that has not delivered, and processUrls returns only    *)
(* when every launched fetch has delivered.                                *)
(***************************************************************************)
UrlOfName(n) == IF handler = "file_run_lumi" THEN DbsBase \o QueryEscape(n) ELSE PhedexBase \o n
Undelivered == {r \in Launched : ~Delivered(r)}

C30_DuplicateFreePlan ==
    /\ \A i, j \in 1..Len(urls) : urls[i] = urls[j] => i = j
    /\ {urls[k] : k \in 1..Len(urls)} = {UrlOfName(names[k]) : k \in 1..Len(names)}
    /\ aggPc # "start" => Cardinality(Launched) = Len(urls)
    /\ aggPc \in {"join", "sleep", "returned"} => Cardinality(umap) = Cardinality(Undelivered)
    /\ aggPc = "returned" => Undelivered = {}

\* the handler planned twice from one block name, whose URL was fetched once,
\* and the join has exited
C30_Witness ==
    /\ Len(names) = 2
    /\ names[1] = names[2]
    /\ Contains(names[1], "#")
    /\ Len(urls) = 1
    /\ aggPc = "returned"
    /\ Cardinality(Launched) = 1

====
